---------------------------- MODULE Spec2Model ----------------------------
(***************************************************************************)
(* Model of scapy/contrib/automotive/gm/gmlanutil.py: the GMLAN diagnostic *)
(* helpers InitDiagnostics, GetSecurityAccess, RequestDownload,            *)
(* TransferData, TransferPayload, ReadMemoryByAddress and the background   *)
(* TesterPresentThread.                                                    *)
(*                                                                         *)
(* One behaviour is one call of one helper (or one life of one thread)     *)
(* against an ECU that answers every request nondeterministically.  Every  *)
(* transport call (send, sr1, sniff) is one step; the local code between   *)
(* two transport calls belongs to the step of the call it follows.         *)
(*                                                                         *)
(* Python's None and the possibly empty list returned by sniff are         *)
(* modelled as sequences of length 0 or 1.  Integers are Python's          *)
(* unbounded integers; the addressing schemes are kept to widths whose     *)
(* 2**(8*scheme) fits the model checker's integers.                        *)
(***************************************************************************)
EXTENDS Integers, Sequences, FiniteSets, TLC

---------------------------------------------------------------------------
(* Bounds of the model: the inputs and the ECU behaviours explored.        *)

\* retry arguments range over -MaxRetry..MaxRetry
MaxRetry == 1
\* the ECU sends at most MaxPending response-pending replies per attempt
MaxPending == 2
\* the thread's periodic loop is followed for at most MaxTP messages
MaxTP == 8
\* length of the short payloads (cut into chunks by a small maxmsglen)
SmallLen == 5
\* length of the long payload (cut into chunks by the protocol ceiling)
BigLen == 10000
\* the small maxmsglen argument
SmallChunk == 2

---------------------------------------------------------------------------
(* Program constants.                                                      *)

SvcDisableNormalCommunication == 40        \* b"\x28"
RespDisableNormalCommunication == 104      \* 0x68
SvcReportProgrammedState == 162            \* b"\xa2"
RespReportProgrammedState == 226           \* 0xe2
RespProgrammingMode == 229                 \* 0xe5
SubRequestProgramming == 1                 \* subfunction=0x1
SubEnableProgramming == 3                  \* subfunction=0x3
RespSecurityAccess == 103                  \* 0x67
NegativeResponse == 127                    \* 0x7f
RcInvalidKey == 53                         \* 0x35
RcResponsePending == 120                   \* 0x78
SvcRequestDownload == 52                   \* 0x34
RespRequestDownload == 116                 \* 0x74
SvcTransferData == 54                      \* 0x36
RespTransferData == 118                    \* 0x76
SvcReadMemoryByAddress == 35               \* 0x23
RespReadMemoryByAddress == 99              \* 0x63
SvcTesterPresent == 62                     \* b"\x3e"
MaxDataRecordBase == 4093                  \* 4093 - scheme
MaxReadBase == 4094                        \* 4094 - scheme

---------------------------------------------------------------------------
(* Python values.                                                          *)

None == <<>>
Some(x) == <<x>>
IsNone(o) == Len(o) = 0
Val(o) == o[1]

Min(a, b) == IF a < b THEN a ELSE b

RECURSIVE Pow2(_)
Pow2(n) == IF n = 0 THEN 1 ELSE 2 * Pow2(n - 1)

\* s[lo:hi] for 0 <= lo, 0 <= hi (a Python slice of a bytes object)
Slice(s, lo, hi) == SubSeq(s, lo + 1, Min(hi, Len(s)))

\* s[lo:] for 0 <= lo
SliceFrom(s, lo) == SubSeq(s, lo + 1, Len(s))

\* range(start, stop, step) for step > 0, as the sequence of its values
PyRange(start, stop, step) ==
    LET n == IF stop <= start THEN 0 ELSE (stop - start + step - 1) \div step
    IN  [k \in 1..n |-> start + (k - 1) * step]

\* if retry < 0: retry = -retry
NormRetry(r) == IF r < 0 THEN -r ELSE r

---------------------------------------------------------------------------
(* Messages.  A request is what the helper builds with GMLAN()/GMLAN_xx;   *)
(* a response exposes the fields the helpers read.                         *)

NoFields ==
    [layer |-> "GMLAN", service |-> 0, subfunction |-> 0, address |-> 0,
     memorySize |-> 0, dataRecord |-> <<>>, securityKey |-> 0]

\* GMLAN(b"\x28")
ReqDisableNormalCommunication ==
    [NoFields EXCEPT !.service = SvcDisableNormalCommunication]
\* GMLAN(b"\xa2")
ReqReportProgrammedState ==
    [NoFields EXCEPT !.service = SvcReportProgrammedState]
\* GMLAN() / GMLAN_PM(subfunction=...)
ReqProgrammingMode(sub) ==
    [NoFields EXCEPT !.layer = "GMLAN_PM", !.subfunction = sub]
\* GMLAN() / GMLAN_SA(subfunction=level)
ReqSeed(level) ==
    [NoFields EXCEPT !.layer = "GMLAN_SA", !.subfunction = level]
\* GMLAN() / GMLAN_SA(subfunction=sub, securityKey=key)
ReqKey(sub, key) ==
    [NoFields EXCEPT !.layer = "GMLAN_SA", !.subfunction = sub,
                     !.securityKey = key]
\* GMLAN() / GMLAN_RD(memorySize=length)
ReqRequestDownload(length) ==
    [NoFields EXCEPT !.layer = "GMLAN_RD", !.memorySize = length]
\* GMLAN() / GMLAN_TD(startingAddress=a, dataRecord=d)
ReqTransferData(a, d) ==
    [NoFields EXCEPT !.layer = "GMLAN_TD", !.address = a, !.dataRecord = d]
\* GMLAN() / GMLAN_RMBA(memoryAddress=a, memorySize=n)
ReqReadMemoryByAddress(a, n) ==
    [NoFields EXCEPT !.layer = "GMLAN_RMBA", !.address = a, !.memorySize = n]
\* GMLAN(b"\x3e")
ReqTesterPresent == [NoFields EXCEPT !.service = SvcTesterPresent]

Resp(service, rc, rsid, seed, data) ==
    [service |-> service, returnCode |-> rc, requestServiceId |-> rsid,
     securitySeed |-> seed, dataRecord |-> data]

Positive(service) == Resp(service, 0, 0, 0, <<>>)
Negative(rc, rsid) == Resp(NegativeResponse, rc, rsid, 0, <<>>)


---------------------------------------------------------------------------
(* Inputs: the arguments of the call and the process-wide configuration.   *)

\* conf.contribs['GMLAN']['GMLAN_ECU_AddressingScheme']
Schemes == {1, 2}
Retries == (0 - MaxRetry)..MaxRetry
Levels == 0..3
Addrs(sch) == {-1, 0, Pow2(8 * sch) - 1, Pow2(8 * sch)}
ReadLens(sch) == {-1, 0, 1, MaxReadBase - sch, MaxReadBase - sch + 1}
MaxMsgLens(sch) ==
    {None, Some(0), Some(-1), Some(SmallChunk),
     Some(MaxDataRecordBase - sch), Some(MaxDataRecordBase - sch + 1)}
\* the payload lengths and maxmsglen arguments tried together: the short
\* payloads with every maxmsglen, the long one with those at the ceiling
TransferCases(sch) ==
    ({0, 1, SmallLen} \X MaxMsgLens(sch))
    \cup ({BigLen} \X {None, Some(MaxDataRecordBase - sch),
                       Some(MaxDataRecordBase - sch + 1)})
\* a payload of n bytes whose content tells its position
Payload(n) == [k \in 1..n |-> k % 256]

\* the securitySeed values an ECU may answer with
Seeds == {0, 1, 4660}
\* the caller's key algorithm (an injected function of the seed)
keyFunction(seed) == (seed * 7 + 3) % 65536
\* the dataRecord values an ECU may answer a read with
ReadData == {<<>>, <<222, 173>>}

Functions ==
    {"InitDiagnostics", "GetSecurityAccess", "RequestDownload",
     "TransferData", "TransferPayload", "ReadMemoryByAddress",
     "TesterPresentThread"}

Args(bc, r, lvl, len, a, pl, mml) ==
    [broadcastsocket |-> bc, retry |-> r, level |-> lvl, length |-> len,
     addr |-> a, payload |-> pl, maxmsglen |-> mml]

---------------------------------------------------------------------------
(* State.                                                                  *)

VARIABLES
    fn,          \* the helper that was called
    arg,         \* its arguments
    scheme,      \* the configured addressing scheme
    pc,          \* the caller's position in the helper
    retry,       \* local retry
    startretry,  \* local startretry (TransferData)
    maxmsglen,   \* local maxmsglen after clamping (TransferData)
    it,          \* how many values of range(0, len(payload), maxmsglen) were taken
    i,           \* loop variable i (TransferData)
    resp,        \* local resp: None or the last response
    npend,       \* response-pending replies the ECU gave in this attempt
    sent,        \* every message handed to a socket, in order
    result,      \* "running", or the returned value "True", "False", "None", "data"
    retdata,     \* the bytes returned by ReadMemoryByAddress
    tpc,         \* the thread's position in run()
    stopEvent,   \* TesterPresentThread._stop_event
    mpc          \* the position of the thread's owner

vars == <<fn, arg, scheme, pc, retry, startretry, maxmsglen, it, i, resp,
          npend, sent, result, retdata, tpc, stopEvent, mpc>>

callVars == <<fn, arg, scheme>>
threadVars == <<tpc, stopEvent, mpc>>
tdVars == <<startretry, maxmsglen, it, i>>

InitArgs(f, sch) ==
    CASE f = "InitDiagnostics" ->
           {Args(bc, r, 0, 0, 0, <<>>, None) : bc \in BOOLEAN, r \in Retries}
      [] f = "GetSecurityAccess" ->
           {Args(FALSE, r, l, 0, 0, <<>>, None) : r \in Retries, l \in Levels}
      [] f = "RequestDownload" ->
           {Args(FALSE, r, 0, n, 0, <<>>, None) : r \in Retries, n \in {0, SmallLen}}
      [] f = "TransferData" ->
           {Args(FALSE, r, 0, 0, a, Payload(c[1]), c[2]) :
               r \in Retries, a \in Addrs(sch), c \in TransferCases(sch)}
      [] f = "TransferPayload" ->
           {Args(FALSE, r, 0, 0, a, Payload(c[1]), c[2]) :
               r \in Retries, a \in {-1, 0},
               c \in {<<0, None>>, <<SmallLen, Some(SmallChunk)>>,
                       <<BigLen, None>>}}
      [] f = "ReadMemoryByAddress" ->
           {Args(FALSE, r, 0, n, a, <<>>, None) :
               r \in Retries, a \in Addrs(sch), n \in ReadLens(sch)}
      [] f = "TesterPresentThread" ->
           {Args(FALSE, 0, 0, 0, 0, <<>>, None)}

Entry(f) ==
    CASE f = "InitDiagnostics" -> "ID_entry"
      [] f = "GetSecurityAccess" -> "SA_entry"
      [] f = "RequestDownload" -> "RD_entry"
      [] f = "TransferData" -> "TD_entry"
      [] f = "TransferPayload" -> "RD_entry"
      [] f = "ReadMemoryByAddress" -> "RMBA_entry"
      [] f = "TesterPresentThread" -> "idle"

Init ==
    /\ fn \in Functions
    /\ scheme \in Schemes
    /\ arg \in InitArgs(fn, scheme)
    /\ pc = Entry(fn)
    /\ retry = arg.retry
    /\ startretry = 0
    /\ maxmsglen = arg.maxmsglen
    /\ it = 0
    /\ i = 0
    /\ resp = None
    /\ npend = 0
    /\ sent = <<>>
    /\ result = "running"
    /\ retdata = <<>>
    /\ tpc = "new"
    /\ stopEvent = FALSE
    /\ mpc = IF fn = "TesterPresentThread" THEN "created" ELSE "none"

---------------------------------------------------------------------------
(* The transport.                                                          *)

\* socket.send(p) / socket.sr1(p, ...): the message leaves on that socket
Send(sock, p) == sent' = Append(sent, [socket |-> sock, pkt |-> p])

\* return v
Return(v) == /\ pc' = "done"
             /\ result' = v

---------------------------------------------------------------------------
(* The ECU: what one sr1 may return for a request.  None is a timeout.     *)

\* answers to a request whose handler only compares resp.service
PlainReplies(expected, sid) ==
    {None, Some(Positive(expected)), Some(Positive(expected + 1)),
     Some(Negative(17, sid))}

\* answers to a seed request
SeedReplies ==
    {None, Some(Negative(18, 39))}
    \cup {Some(Resp(RespSecurityAccess, 0, 0, s, <<>>)) : s \in Seeds}

\* answers to a key submission
KeyReplies ==
    {None, Some(Positive(RespSecurityAccess)),
     Some(Negative(RcInvalidKey, 39)), Some(Negative(18, 39)),
     Some(Positive(RespSecurityAccess + 1))}

---------------------------------------------------------------------------
(* InitDiagnostics                                                         *)

\* lines 63-66: entering the function
ID_Entry ==
    /\ pc = "ID_entry"
    /\ retry' = NormRetry(retry)
    /\ pc' = "ID_loop"
    /\ UNCHANGED <<callVars, tdVars, resp, npend, sent, result, retdata,
                   threadVars>>

\* line 80: the check of the DisableNormalCommunication response
ID_Step1Ok(r) == ~IsNone(r) /\ Val(r).service = RespDisableNormalCommunication

\* ID_Step2Ok expecting the code of the next step
ID_Step2OkWrongCode(r) == ~IsNone(r) /\ Val(r).service = RespProgrammingMode

\* line 100: the check of the ReportProgrammedState response
ID_Step2Ok(r) == ~IsNone(r) /\ Val(r).service = RespReportProgrammedState

\* ID_Step3Ok taking any response as the acknowledgement
ID_Step3OkAnyReply(r) == ~IsNone(r)

\* line 115: the check of the requestProgramming response
ID_Step3Ok(r) == ~IsNone(r) /\ Val(r).service = RespProgrammingMode

\* lines 68-90: while retry >= 0, retry -= 1, DisableNormalCommunication
ID_DisableNormalCommunication ==
    /\ pc = "ID_loop"
    /\ retry >= 0
    /\ retry' = retry - 1
    /\ IF ~arg.broadcastsocket
       THEN /\ Send("socket", ReqDisableNormalCommunication)
            /\ \E r \in PlainReplies(RespDisableNormalCommunication,
                                     SvcDisableNormalCommunication) :
                 /\ resp' = r
                 /\ pc' = IF ID_Step1Ok(r) THEN "ID_step2" ELSE "ID_loop"
       ELSE /\ Send("broadcastsocket", ReqDisableNormalCommunication)
            /\ resp' = resp
            /\ pc' = "ID_step2"
    /\ UNCHANGED <<callVars, tdVars, npend, result, retdata, threadVars>>

\* lines 92-105: ReportProgrammedState
ID_ReportProgrammedState ==
    /\ pc = "ID_step2"
    /\ Send("socket", ReqReportProgrammedState)
    /\ \E r \in PlainReplies(RespReportProgrammedState,
                             SvcReportProgrammedState) :
         /\ resp' = r
         /\ pc' = IF ID_Step2Ok(r) THEN "ID_step3" ELSE "ID_loop"
    /\ UNCHANGED <<callVars, tdVars, retry, npend, result, retdata,
                   threadVars>>

\* lines 107-121: ProgrammingMode requestProgramming
ID_RequestProgramming ==
    /\ pc = "ID_step3"
    /\ Send("socket", ReqProgrammingMode(SubRequestProgramming))
    /\ \E r \in PlainReplies(RespProgrammingMode, 165) :
         /\ resp' = r
         /\ pc' = IF ID_Step3Ok(r) THEN "ID_step4" ELSE "ID_loop"
    /\ UNCHANGED <<callVars, tdVars, retry, npend, result, retdata,
                   threadVars>>

\* lines 123-130: ProgrammingMode enableProgramming, return True
ID_EnableProgramming ==
    /\ pc = "ID_step4"
    /\ Send("socket", ReqProgrammingMode(SubEnableProgramming))
    /\ Return("True")
    /\ UNCHANGED <<callVars, tdVars, retry, resp, npend, retdata,
                   threadVars>>

\* lines 68, 131: the loop ends, return False
ID_Fail ==
    /\ pc = "ID_loop"
    /\ ~(retry >= 0)
    /\ Return("False")
    /\ UNCHANGED <<callVars, tdVars, retry, resp, npend, sent, retdata,
                   threadVars>>

---------------------------------------------------------------------------
(* GetSecurityAccess                                                       *)

\* LevelIsEven with the parity inverted
LevelIsOdd(level) == level % 2 = 1

\* line 153: level % 2 == 0
LevelIsEven(level) == level % 2 = 0

\* lines 148-157: entering the function, the check of level
SA_Entry ==
    /\ pc = "SA_entry"
    /\ retry' = NormRetry(retry)
    /\ IF LevelIsEven(arg.level)
       THEN Return("False")
       ELSE pc' = "SA_loop" /\ result' = result
    /\ UNCHANGED <<callVars, tdVars, resp, npend, sent, retdata, threadVars>>

\* line 167: the check of the seed response
SA_SeedOk(r) == ~IsNone(r) /\ Val(r).service = RespSecurityAccess

\* SA_Unlocked with the zero-seed shortcut left out
SA_UnlockedNever(seed) == FALSE

\* line 177: seed == 0
SA_Unlocked(seed) == seed = 0

\* lines 159-180: while retry >= 0, retry -= 1, request the seed
SA_RequestSeed ==
    /\ pc = "SA_loop"
    /\ retry >= 0
    /\ retry' = retry - 1
    /\ Send("socket", ReqSeed(arg.level))
    /\ \E r \in SeedReplies :
         /\ resp' = r
         /\ IF ~SA_SeedOk(r)
            THEN pc' = "SA_loop" /\ result' = result
            ELSE IF SA_Unlocked(Val(r).securitySeed)
                 THEN Return("True")
                 ELSE pc' = "SA_key" /\ result' = result
    /\ UNCHANGED <<callVars, tdVars, npend, retdata, threadVars>>

\* SA_KeyPkt answering on the seed's own sub-function
SA_KeyPktSameLevel(level, seed) == ReqKey(level, keyFunction(seed))

\* lines 182-183: the key packet built from the seed
SA_KeyPkt(level, seed) == ReqKey(level + 1, keyFunction(seed))

\* SA_SendKey taking one more retry for a key that was not accepted
SA_SendKeyChargedTwice ==
    /\ pc = "SA_key"
    /\ Send("socket", SA_KeyPkt(arg.level, Val(resp).securitySeed))
    /\ \E r \in KeyReplies :
         /\ resp' = r
         /\ IF ~IsNone(r) /\ Val(r).service = RespSecurityAccess
            THEN Return("True") /\ retry' = retry
            ELSE pc' = "SA_loop" /\ result' = result /\ retry' = retry - 1
    /\ UNCHANGED <<callVars, tdVars, npend, retdata, threadVars>>

\* lines 182-202: respond with the key
SA_SendKey ==
    /\ pc = "SA_key"
    /\ Send("socket", SA_KeyPkt(arg.level, Val(resp).securitySeed))
    /\ \E r \in KeyReplies :
         /\ resp' = r
         /\ IF ~IsNone(r) /\ Val(r).service = RespSecurityAccess
            THEN Return("True")
            ELSE pc' = "SA_loop" /\ result' = result
    /\ UNCHANGED <<callVars, tdVars, retry, npend, retdata, threadVars>>

\* lines 159, 203: the loop ends, return False
SA_Fail ==
    /\ pc = "SA_loop"
    /\ ~(retry >= 0)
    /\ Return("False")
    /\ UNCHANGED <<callVars, tdVars, retry, resp, npend, sent, retdata,
                   threadVars>>

InitDiagnostics ==
    \/ ID_Entry
    \/ ID_DisableNormalCommunication
    \/ ID_ReportProgrammedState
    \/ ID_RequestProgramming
    \/ ID_EnableProgramming
    \/ ID_Fail

GetSecurityAccess ==
    \/ SA_Entry
    \/ SA_RequestSeed
    \/ SA_SendKey
    \/ SA_Fail

---------------------------------------------------------------------------
(* Response pending, shared shape of RequestDownload, TransferData and     *)
(* ReadMemoryByAddress.                                                    *)

\* IsPending comparing the return code with 0x87 instead of 0x78
IsPendingWrongCode(r, sid) ==
    /\ ~IsNone(r)
    /\ Val(r).service = NegativeResponse
    /\ Val(r).returnCode = 135
    /\ Val(r).requestServiceId = sid

\* IsPending without the comparison of the echoed service id
IsPendingAnyService(r, sid) ==
    /\ ~IsNone(r)
    /\ Val(r).service = NegativeResponse
    /\ Val(r).returnCode = RcResponsePending

\* lines 234-235, 312-313, 406-407: the condition of the filter loop
IsPending(r, sid) ==
    /\ ~IsNone(r)
    /\ Val(r).service = NegativeResponse
    /\ Val(r).returnCode = RcResponsePending
    /\ Val(r).requestServiceId = sid

\* what the ECU may answer to a request of service sid: nothing, a positive
\* response, a negative one, response pending for this request (at most
\* MaxPending times in a row) or response pending echoing another service
TransferReplies(positives, sid) ==
    {None, Some(Negative(34, sid)),
     Some(Negative(RcResponsePending, sid + 1))}
    \cup {Some(p) : p \in positives}
    \cup (IF npend < MaxPending
          THEN {Some(Negative(RcResponsePending, sid))} ELSE {})

\* pending replies counted while the filter loop runs
CountPending(r, sid, first) ==
    IF IsPending(r, sid) THEN (IF first THEN 1 ELSE npend + 1)
    ELSE (IF first THEN 0 ELSE npend)

---------------------------------------------------------------------------
(* RequestDownload (also the first half of TransferPayload)                *)

\* lines 220-223 (and 357-358 from TransferPayload)
RD_Entry ==
    /\ pc = "RD_entry"
    /\ retry' = NormRetry(arg.retry)
    /\ pc' = "RD_send"
    /\ UNCHANGED <<callVars, tdVars, resp, npend, sent, result, retdata,
                   threadVars>>

\* memorySize of the request: length, or len(payload) from TransferPayload
RD_Length == IF fn = "TransferPayload" THEN Len(arg.payload) ELSE arg.length

\* RD_Return with TransferPayload ignoring what RequestDownload returned
RD_ReturnIgnored(v) ==
    IF fn = "TransferPayload"
    THEN pc' = "TD_entry" /\ result' = result
    ELSE Return(v)

\* lines 259 / 258, and lines 357-360 when called from TransferPayload
RD_Return(v) ==
    IF fn = "TransferPayload" /\ v = "True"
    THEN pc' = "TD_entry" /\ result' = result
    ELSE Return(v)

\* RD_Retry with the budget tested before it is decremented
RD_RetryLate ==
    IF retry >= 0
    THEN retry' = retry - 1 /\ pc' = "RD_send" /\ result' = result
    ELSE retry' = retry /\ RD_Return("False")

\* lines 253-258: retry -= 1, retry or give up
RD_Retry ==
    /\ retry' = retry - 1
    /\ IF retry' >= 0
       THEN pc' = "RD_send" /\ result' = result
       ELSE RD_Return("False")

\* lines 229-258: what follows a response r (None: no response)
RD_Resolve(r) ==
    /\ resp' = r
    /\ IF IsPending(r, SvcRequestDownload)
       THEN /\ pc' = "RD_sniff"
            /\ UNCHANGED <<retry, result>>
       ELSE IF ~IsNone(r) /\ Val(r).service = RespRequestDownload
            THEN retry' = retry /\ RD_Return("True")
            ELSE RD_Retry

\* lines 227-228: send the request, then lines 229-258
RD_Send ==
    /\ pc = "RD_send"
    /\ Send("socket", ReqRequestDownload(RD_Length))
    /\ \E r \in TransferReplies({Positive(RespRequestDownload)},
                                SvcRequestDownload) :
         /\ RD_Resolve(r)
         /\ npend' = CountPending(r, SvcRequestDownload, TRUE)
    /\ UNCHANGED <<callVars, tdVars, retdata, threadVars>>

\* lines 236-241: one passive sniff, then lines 234-258
RD_Sniff ==
    /\ pc = "RD_sniff"
    /\ \E r \in TransferReplies({Positive(RespRequestDownload)},
                                SvcRequestDownload) :
         /\ RD_Resolve(r)
         /\ npend' = CountPending(r, SvcRequestDownload, FALSE)
    /\ UNCHANGED <<callVars, tdVars, sent, retdata, threadVars>>

---------------------------------------------------------------------------
(* TransferData (also the second half of TransferPayload)                  *)

\* InvalidAddr without the upper limit
InvalidAddrNoUpper(addr, sch) == addr < 0

\* line 287: addr < 0 or addr >= 2**(8 * scheme)
InvalidAddr(addr, sch) == addr < 0 \/ addr >= Pow2(8 * sch)

\* ClampMaxMsgLen without the upper limit
ClampNoCeiling(m, sch) ==
    IF IsNone(m) \/ Val(m) <= 0
    THEN MaxDataRecordBase - sch
    ELSE Val(m)

\* lines 293-294: the effective maxmsglen
ClampMaxMsgLen(m, sch) ==
    IF IsNone(m) \/ Val(m) <= 0 \/ Val(m) > (MaxDataRecordBase - sch)
    THEN MaxDataRecordBase - sch
    ELSE Val(m)

\* line 296: range(0, len(payload), maxmsglen)
TD_Range == PyRange(0, Len(arg.payload), Val(maxmsglen))

\* TD_TransData with a slice one byte short
TD_TransDataShort(payload, k, m) ==
    IF Len(SliceFrom(payload, k)) > m
    THEN Slice(payload, k, k + m - 1)
    ELSE SliceFrom(payload, k)

\* lines 299-302: the bytes of the chunk at offset k
TD_TransData(payload, k, m) ==
    IF Len(SliceFrom(payload, k)) > m
    THEN Slice(payload, k, k + m)
    ELSE SliceFrom(payload, k)

\* lines 303-304: the data-transfer request of the chunk at offset k
TD_Pkt(addr, payload, k, m) ==
    ReqTransferData(addr + k, TD_TransData(payload, k, m))

\* lines 280-294 (and 360-361 from TransferPayload)
TD_Entry ==
    /\ pc = "TD_entry"
    /\ retry' = NormRetry(arg.retry)
    /\ startretry' = retry'
    /\ IF InvalidAddr(arg.addr, scheme)
       THEN /\ Return("False")
            /\ UNCHANGED <<maxmsglen, it, i>>
       ELSE /\ maxmsglen' = Some(ClampMaxMsgLen(arg.maxmsglen, scheme))
            /\ it' = 0
            /\ i' = i
            /\ pc' = "TD_for"
            /\ result' = result
    /\ UNCHANGED <<callVars, resp, npend, sent, retdata, threadVars>>

\* TD_For with the budget left over from the chunk before
TD_ForNoReset ==
    /\ pc = "TD_for"
    /\ IF it < Len(TD_Range)
       THEN /\ it' = it + 1
            /\ i' = TD_Range[it + 1]
            /\ retry' = retry
            /\ pc' = "TD_send"
            /\ result' = result
       ELSE /\ Return("True")
            /\ UNCHANGED <<it, i, retry>>
    /\ UNCHANGED <<callVars, startretry, maxmsglen, resp, npend, sent,
                   retdata, threadVars>>

\* lines 296-297, 338: the next chunk, or return True
TD_For ==
    /\ pc = "TD_for"
    /\ IF it < Len(TD_Range)
       THEN /\ it' = it + 1
            /\ i' = TD_Range[it + 1]
            /\ retry' = startretry
            /\ pc' = "TD_send"
            /\ result' = result
       ELSE /\ Return("True")
            /\ UNCHANGED <<it, i, retry>>
    /\ UNCHANGED <<callVars, startretry, maxmsglen, resp, npend, sent,
                   retdata, threadVars>>

\* lines 331-336: retry -= 1, retry or give up
TD_Retry ==
    /\ retry' = retry - 1
    /\ IF retry' >= 0
       THEN pc' = "TD_send" /\ result' = result
       ELSE Return("False")

\* TD_Resolve taking any response that is not pending as the acknowledgement
TD_ResolveAnyReply(r) ==
    /\ resp' = r
    /\ IF IsPending(r, SvcTransferData)
       THEN /\ pc' = "TD_sniff"
            /\ UNCHANGED <<retry, result>>
       ELSE IF ~IsNone(r)
            THEN /\ pc' = "TD_for"
                 /\ UNCHANGED <<retry, result>>
            ELSE TD_Retry

\* lines 307-336: what follows a response r (None: no response)
TD_Resolve(r) ==
    /\ resp' = r
    /\ IF IsPending(r, SvcTransferData)
       THEN /\ pc' = "TD_sniff"
            /\ UNCHANGED <<retry, result>>
       ELSE IF ~IsNone(r) /\ Val(r).service = RespTransferData
            THEN /\ pc' = "TD_for"
                 /\ UNCHANGED <<retry, result>>
            ELSE TD_Retry

\* lines 299-305: send the chunk, then lines 307-336
TD_Send ==
    /\ pc = "TD_send"
    /\ Send("socket", TD_Pkt(arg.addr, arg.payload, i, Val(maxmsglen)))
    /\ \E r \in TransferReplies({Positive(RespTransferData)},
                                SvcTransferData) :
         /\ TD_Resolve(r)
         /\ npend' = CountPending(r, SvcTransferData, TRUE)
    /\ UNCHANGED <<callVars, tdVars, retdata, threadVars>>

\* lines 314-319: one passive sniff, then lines 312-336
TD_Sniff ==
    /\ pc = "TD_sniff"
    /\ \E r \in TransferReplies({Positive(RespTransferData)},
                                SvcTransferData) :
         /\ TD_Resolve(r)
         /\ npend' = CountPending(r, SvcTransferData, FALSE)
    /\ UNCHANGED <<callVars, tdVars, sent, retdata, threadVars>>

---------------------------------------------------------------------------
(* ReadMemoryByAddress                                                     *)

\* InvalidLength without the addressing width
InvalidLengthNoScheme(length, sch) == length <= 0 \/ length > MaxReadBase

\* line 392: length <= 0 or length > (4094 - scheme)
InvalidLength(length, sch) == length <= 0 \/ length > (MaxReadBase - sch)

\* lines 380-395
RMBA_Entry ==
    /\ pc = "RMBA_entry"
    /\ retry' = NormRetry(arg.retry)
    /\ IF InvalidAddr(arg.addr, scheme)
       THEN Return("None")
       ELSE IF InvalidLength(arg.length, scheme)
            THEN Return("None")
            ELSE pc' = "RMBA_send" /\ result' = result
    /\ UNCHANGED <<callVars, tdVars, resp, npend, sent, retdata, threadVars>>

\* the positive responses to a read, one per dataRecord the ECU may return
ReadPositives ==
    {Resp(RespReadMemoryByAddress, 0, 0, 0, d) : d \in ReadData}

\* RMBA_Retry with the budget tested before it is decremented
RMBA_RetryLate ==
    IF retry >= 0
    THEN retry' = retry - 1 /\ pc' = "RMBA_send" /\ result' = result
    ELSE retry' = retry /\ Return("None")

\* lines 425-430: retry -= 1, retry or give up
RMBA_Retry ==
    /\ retry' = retry - 1
    /\ IF retry' >= 0
       THEN pc' = "RMBA_send" /\ result' = result
       ELSE Return("None")

\* lines 401-430: what follows a response r (None: no response)
RMBA_Resolve(r) ==
    /\ resp' = r
    /\ IF IsPending(r, SvcReadMemoryByAddress)
       THEN /\ pc' = "RMBA_sniff"
            /\ UNCHANGED <<retry, result, retdata>>
       ELSE IF ~IsNone(r) /\ Val(r).service = RespReadMemoryByAddress
            THEN /\ Return("data")
                 /\ retdata' = Val(r).dataRecord
                 /\ retry' = retry
            ELSE /\ RMBA_Retry
                 /\ retdata' = retdata

\* lines 399-400: send the request, then lines 401-430
RMBA_Send ==
    /\ pc = "RMBA_send"
    /\ Send("socket", ReqReadMemoryByAddress(arg.addr, arg.length))
    /\ \E r \in TransferReplies(ReadPositives, SvcReadMemoryByAddress) :
         /\ RMBA_Resolve(r)
         /\ npend' = CountPending(r, SvcReadMemoryByAddress, TRUE)
    /\ UNCHANGED <<callVars, tdVars, threadVars>>

\* lines 408-413: one passive sniff, then lines 406-430
RMBA_Sniff ==
    /\ pc = "RMBA_sniff"
    /\ \E r \in TransferReplies(ReadPositives, SvcReadMemoryByAddress) :
         /\ RMBA_Resolve(r)
         /\ npend' = CountPending(r, SvcReadMemoryByAddress, FALSE)
    /\ UNCHANGED <<callVars, tdVars, sent, threadVars>>

RequestDownload ==
    \/ RD_Entry
    \/ RD_Send
    \/ RD_Sniff

TransferData ==
    \/ TD_Entry
    \/ TD_For
    \/ TD_Send
    \/ TD_Sniff

ReadMemoryByAddress ==
    \/ RMBA_Entry
    \/ RMBA_Send
    \/ RMBA_Sniff

---------------------------------------------------------------------------
(* TesterPresentThread and its owner                                       *)

callerVars == <<pc, retry, resp, npend, result, retdata>>

\* Thread.start(): run() begins in the new thread
TP_Start ==
    /\ mpc \in {"created", "raised"}
    /\ tpc = "new"
    /\ tpc' = "wakeup"
    /\ mpc' = "started"
    /\ UNCHANGED <<callVars, tdVars, callerVars, sent, stopEvent>>

\* line 32: stop() sets the event
TP_StopSet ==
    /\ mpc = "started"
    /\ stopEvent' = TRUE
    /\ mpc' = "joining"
    /\ UNCHANGED <<callVars, tdVars, callerVars, sent, tpc>>

\* TP_StopJoin without the join: stop() returns while run() may go on
TP_StopNoJoin ==
    /\ mpc = "joining"
    /\ mpc' = "stopped"
    /\ UNCHANGED <<callVars, tdVars, callerVars, sent, tpc, stopEvent>>

\* line 33: join() returns once run() has ended, and stop() returns
TP_StopJoin ==
    /\ mpc = "joining"
    /\ tpc = "exited"
    /\ mpc' = "stopped"
    /\ UNCHANGED <<callVars, tdVars, callerVars, sent, tpc, stopEvent>>

\* lines 32-33 on a thread that was not started: the event is set and
\* join() raises RuntimeError, so stop() does not return
TP_StopUnstarted ==
    /\ mpc = "created"
    /\ stopEvent' = TRUE
    /\ mpc' = "raised"
    /\ UNCHANGED <<callVars, tdVars, callerVars, sent, tpc>>

\* lines 39-42: the wake-up message and the sleep after it
T_Wakeup ==
    /\ tpc = "wakeup"
    /\ Send("socket", ReqTesterPresent)
    /\ tpc' = "check"
    /\ UNCHANGED <<callVars, tdVars, callerVars, stopEvent, mpc>>

\* T_Check with the loop condition always true
T_CheckIgnoresStop ==
    /\ tpc = "check"
    /\ tpc' = "send"
    /\ UNCHANGED <<callVars, tdVars, callerVars, sent, stopEvent, mpc>>

\* lines 35-36, 43: while not self.stopped()
T_Check ==
    /\ tpc = "check"
    /\ tpc' = IF stopEvent THEN "exited" ELSE "send"
    /\ UNCHANGED <<callVars, tdVars, callerVars, sent, stopEvent, mpc>>

\* line 44: the periodic message (the rounds of a thread that is not told
\* to stop are cut off at MaxTP messages)
T_Send ==
    /\ tpc = "send"
    /\ (Len(sent) < MaxTP \/ stopEvent)
    /\ Send("socket", ReqTesterPresent)
    /\ tpc' = "wait"
    /\ UNCHANGED <<callVars, tdVars, callerVars, stopEvent, mpc>>

\* line 45: self._stop_event.wait(3) returns, set or timed out
T_Wait ==
    /\ tpc = "wait"
    /\ tpc' = "check"
    /\ UNCHANGED <<callVars, tdVars, callerVars, sent, stopEvent, mpc>>

TesterPresentThread ==
    \/ TP_Start
    \/ TP_StopSet
    \/ TP_StopJoin
    \/ TP_StopUnstarted
    \/ T_Wakeup
    \/ T_Check
    \/ T_Send
    \/ T_Wait

---------------------------------------------------------------------------
Next ==
    \/ InitDiagnostics
    \/ GetSecurityAccess
    \/ RequestDownload
    \/ TransferData
    \/ ReadMemoryByAddress
    \/ TesterPresentThread

Spec == Init /\ [][Next]_vars

---------------------------------------------------------------------------
(* The transfer helpers against an ECU that may answer response pending    *)
(* without end.  Every sr1 and every sniff returns, which is the weak      *)
(* fairness of the next-state relation.  Past MaxPending the pending       *)
(* replies of an attempt are counted modulo 2, which keeps npend finite    *)
(* and every further reply a step.                                         *)

\* npend after one more pending reply past MaxPending
CountBeyond == IF npend = MaxPending THEN MaxPending + 1 ELSE MaxPending

\* lines 234-241: the sniff returns one more response pending
RD_SniffPending ==
    /\ pc = "RD_sniff"
    /\ npend >= MaxPending
    /\ resp' = Some(Negative(RcResponsePending, SvcRequestDownload))
    /\ npend' = CountBeyond
    /\ UNCHANGED <<callVars, tdVars, pc, retry, sent, result, retdata,
                   threadVars>>

\* lines 312-319: the sniff returns one more response pending
TD_SniffPending ==
    /\ pc = "TD_sniff"
    /\ npend >= MaxPending
    /\ resp' = Some(Negative(RcResponsePending, SvcTransferData))
    /\ npend' = CountBeyond
    /\ UNCHANGED <<callVars, tdVars, pc, retry, sent, result, retdata,
                   threadVars>>

\* lines 406-413: the sniff returns one more response pending
RMBA_SniffPending ==
    /\ pc = "RMBA_sniff"
    /\ npend >= MaxPending
    /\ resp' = Some(Negative(RcResponsePending, SvcReadMemoryByAddress))
    /\ npend' = CountBeyond
    /\ UNCHANGED <<callVars, tdVars, pc, retry, sent, result, retdata,
                   threadVars>>

\* one call of RequestDownload, TransferData or ReadMemoryByAddress
InitLive ==
    /\ Init
    /\ fn \in {"RequestDownload", "TransferData", "ReadMemoryByAddress"}

NextLive ==
    \/ RequestDownload
    \/ TransferData
    \/ ReadMemoryByAddress
    \/ RD_SniffPending
    \/ TD_SniffPending
    \/ RMBA_SniffPending

SpecLive == InitLive /\ [][NextLive]_vars /\ WF_vars(NextLive)

---------------------------------------------------------------------------
(* The tester-present thread under a scheduler that lets run() go on:      *)
(* socket.send, sleep and Event.wait return, and join() returns once run() *)
(* has ended.  Calling start() and stop() is left to the caller.           *)

InitThread == Init /\ fn = "TesterPresentThread"

\* lines 38-45: the steps of run()
T_Run ==
    \/ T_Wakeup
    \/ T_Check
    \/ T_Send
    \/ T_Wait

SpecThread ==
    /\ InitThread
    /\ [][TesterPresentThread]_vars
    /\ WF_vars(T_Run)
    /\ WF_vars(TP_StopJoin)

---------------------------------------------------------------------------
(* Properties.                                                             *)

\* the packets handed to the sockets, in order
Pkts == [k \in 1..Len(sent) |-> sent[k].pkt]

\* how many of the sent packets satisfy P
CountSent(P(_)) == Cardinality({k \in 1..Len(sent) : P(sent[k].pkt)})

\* |r| for the retry argument r
AbsRetry == IF arg.retry < 0 THEN 0 - arg.retry ELSE arg.retry

IsDNC(p) == p.layer = "GMLAN" /\ p.service = 40
IsSeedReq(p) == p.layer = "GMLAN_SA" /\ p.subfunction = arg.level
IsRD(p) == p.layer = "GMLAN_RD"
IsTD(p) == p.layer = "GMLAN_TD"
IsRMBA(p) == p.layer = "GMLAN_RMBA"

\* the data-transfer requests sent so far, in order
TDSent == SelectSeq(Pkts, IsTD)

(* C1: with retry argument r, InitDiagnostics, GetSecurityAccess,          *)
(* RequestDownload and ReadMemoryByAddress send their first request at     *)
(* most |r|+1 times, and TransferData sends the request of any one chunk   *)
(* (one starting address) at most |r|+1 times; a call that returns failure *)
(* after its validation has used exactly |r|+1 attempt cycles.             *)
C1_AttemptCycles ==
    /\ fn = "InitDiagnostics" => CountSent(IsDNC) <= AbsRetry + 1
    /\ fn = "GetSecurityAccess" => CountSent(IsSeedReq) <= AbsRetry + 1
    /\ fn \in {"RequestDownload", "TransferPayload"} =>
          CountSent(IsRD) <= AbsRetry + 1
    /\ fn = "ReadMemoryByAddress" => CountSent(IsRMBA) <= AbsRetry + 1
    /\ fn \in {"TransferData", "TransferPayload"} =>
          \A k \in 1..Len(sent) :
             CountSent(LAMBDA p : IsTD(p) /\ p.address = sent[k].pkt.address)
                <= AbsRetry + 1
    /\ (fn = "InitDiagnostics" /\ result = "False") =>
          CountSent(IsDNC) = AbsRetry + 1
    /\ (fn = "RequestDownload" /\ result = "False") =>
          CountSent(IsRD) = AbsRetry + 1

\* a failed InitDiagnostics called with a negative retry used |r|+1 cycles
C1_Witness ==
    /\ fn = "InitDiagnostics"
    /\ arg.retry = -1
    /\ result = "False"
    /\ CountSent(IsDNC) = 2

\* the service id a transfer helper waits on at position pc, 0 elsewhere
WaitingOn ==
    CASE pc \in {"RD_send", "RD_sniff"} -> 52
      [] pc \in {"TD_send", "TD_sniff"} -> 54
      [] pc \in {"RMBA_send", "RMBA_sniff"} -> 35
      [] OTHER -> 0

\* r is a response-pending reply echoing service sid
PendingReply(r, sid) ==
    /\ r # None
    /\ r[1].service = 127
    /\ r[1].returnCode = 120
    /\ r[1].requestServiceId = sid

\* r is a positive response of service code
PositiveReply(r, code) == r # None /\ r[1].service = code

\* a step of a transfer helper that takes r as the answer to its request:
\* retry, pc and result stay on the request when r is response pending
C2_Absorbed ==
    (WaitingOn # 0 /\ PendingReply(resp', WaitingOn)) =>
        /\ retry' = retry
        /\ result' = "running"
        /\ pc' \in {"RD_sniff", "TD_sniff", "RMBA_sniff"}
        /\ WaitingOn' = WaitingOn

\* a passive sniff sends nothing
C2_SniffSendsNothing ==
    pc \in {"RD_sniff", "TD_sniff", "RMBA_sniff"} => sent' = sent

\* the expected positive response ends the request with success, whether
\* it comes from sr1 or from a sniff after pending replies
C2_PositiveSucceeds ==
    /\ (WaitingOn = 52 /\ PositiveReply(resp', 116)) =>
          /\ retry' = retry
          /\ IF fn = "RequestDownload" THEN result' = "True"
                                       ELSE pc' = "TD_entry"
    /\ (WaitingOn = 54 /\ PositiveReply(resp', 118)) =>
          /\ retry' = retry
          /\ pc' = "TD_for"
    /\ (WaitingOn = 35 /\ PositiveReply(resp', 99)) =>
          /\ retry' = retry
          /\ result' = "data"
          /\ retdata' = resp'[1].dataRecord

\* while a request is outstanding the retry counter only tells how often
\* that request was sent, however many pending replies were absorbed
C2_Counter ==
    /\ pc \in {"RD_sniff"} => retry = AbsRetry - (CountSent(IsRD) - 1)
    /\ pc \in {"RMBA_sniff"} => retry = AbsRetry - (CountSent(IsRMBA) - 1)
    /\ pc \in {"TD_sniff"} =>
          retry = AbsRetry -
                  (CountSent(LAMBDA p : IsTD(p) /\ p.address = arg.addr + i) - 1)
    /\ (arg.retry = 0 /\ fn = "RequestDownload") => CountSent(IsRD) <= 1
    /\ (arg.retry = 0 /\ fn = "ReadMemoryByAddress") => CountSent(IsRMBA) <= 1

(* C2: in RequestDownload, TransferData and ReadMemoryByAddress a          *)
(* response-pending reply echoing the request's service id never changes   *)
(* the retry counter and leaves the request outstanding; the sniffs that   *)
(* follow send nothing; the expected positive response, after any number   *)
(* of pending replies, makes the request succeed, so with budget 0 the     *)
(* request is sent once.                                                   *)
C2_PendingKeepsBudget ==
    /\ []C2_Counter
    /\ [][C2_Absorbed /\ C2_SniffSendsNothing /\ C2_PositiveSucceeds]_vars

\* budget 0, two pending replies, then the data: one request, success
C2_Witness ==
    /\ fn = "ReadMemoryByAddress"
    /\ arg.retry = 0
    /\ npend >= 2
    /\ result = "data"
    /\ retdata = <<222, 173>>
    /\ Len(sent) = 1

(* C3: once stop() has returned the thread's loop has exited and no        *)
(* further TesterPresent message is sent on the socket.                    *)
C3_NoSendAfterStop ==
    /\ [](mpc = "stopped" => (tpc = "exited" /\ stopEvent))
    /\ [][mpc = "stopped" => sent' = sent]_vars

\* stop() returned after the wake-up and at least one periodic message
C3_Witness ==
    /\ mpc = "stopped"
    /\ Len(sent) >= 2
    /\ \A k \in 1..Len(sent) : sent[k].pkt.service = 62

(* C4: GetSecurityAccess with an even level returns False and no message   *)
(* is ever sent, for every retry argument.                                 *)
C4_EvenLevelSendsNothing ==
    (fn = "GetSecurityAccess" /\ arg.level % 2 = 0) =>
        /\ sent = <<>>
        /\ pc \in {"SA_entry", "done"}
        /\ pc = "done" => result = "False"

\* an even level with a non-zero retry budget was rejected
C4_Witness ==
    /\ fn = "GetSecurityAccess"
    /\ arg.level = 2
    /\ arg.retry = 1
    /\ result = "False"
    /\ sent = <<>>

(* C5: ReadMemoryByAddress with a length above 4094 - scheme returns None  *)
(* and sends nothing; every read request sent has a memorySize in          *)
(* 1 .. 4094 - scheme.                                                     *)
C5_ReadLengthCeiling ==
    fn = "ReadMemoryByAddress" =>
        /\ arg.length > 4094 - scheme =>
              /\ sent = <<>>
              /\ pc \in {"RMBA_entry", "done"}
              /\ pc = "done" => result = "None"
        /\ \A k \in 1..Len(sent) :
              /\ sent[k].pkt.memorySize >= 1
              /\ sent[k].pkt.memorySize <= 4094 - scheme

\* a length one above the ceiling was rejected although the address is valid
C5_Witness ==
    /\ fn = "ReadMemoryByAddress"
    /\ arg.addr = 0
    /\ arg.length = 4094 - scheme + 1
    /\ arg.retry = 1
    /\ result = "None"
    /\ sent = <<>>

\* the chunk size the maxmsglen argument stands for
EffChunk ==
    IF arg.maxmsglen = None THEN 4093 - scheme
    ELSE IF arg.maxmsglen[1] <= 0 THEN 4093 - scheme
    ELSE IF arg.maxmsglen[1] > 4093 - scheme THEN 4093 - scheme
    ELSE arg.maxmsglen[1]

(* C6: whatever the maxmsglen argument, every data-transfer request        *)
(* carries at most 4093 - scheme bytes; the chunk size in use is           *)
(* 4093 - scheme when maxmsglen is unset, non-positive or above it, and    *)
(* maxmsglen otherwise, and every chunk but the last has exactly that      *)
(* size.                                                                   *)
C6_ChunkCeiling ==
    fn \in {"TransferData", "TransferPayload"} =>
        /\ pc \in {"TD_for", "TD_send", "TD_sniff"} => maxmsglen = <<EffChunk>>
        /\ LET tds == TDSent
           IN  \A k \in 1..Len(tds) :
                  /\ Len(tds[k].dataRecord) <= 4093 - scheme
                  /\ Len(tds[k].dataRecord) =
                        Min(EffChunk,
                            Len(arg.payload) - (tds[k].address - arg.addr))

\* a maxmsglen above the ceiling, and a chunk of exactly the ceiling sent
C6_Witness ==
    /\ fn = "TransferData"
    /\ arg.maxmsglen = <<4093 - scheme + 1>>
    /\ \E k \in 1..Len(sent) : Len(sent[k].pkt.dataRecord) = 4093 - scheme

\* the concatenation of the data records of a sequence of requests
RECURSIVE ConcatData(_)
ConcatData(q) ==
    IF q = <<>> THEN <<>>
    ELSE ConcatData(SubSeq(q, 1, Len(q) - 1)) \o q[Len(q)].dataRecord

\* no data-transfer request was sent twice
NoResend ==
    LET tds == TDSent
    IN  \A j, k \in 1..Len(tds) : tds[j].address = tds[k].address => j = k

(* C7: when no chunk had to be sent again, the k-th data-transfer request  *)
(* is addressed at addr + (k-1)*s and carries                              *)
(* payload[(k-1)*s : min(k*s, L)], s being the chunk size in use and L the *)
(* payload length; a successful TransferData has then sent exactly         *)
(* ceil(L/s) requests whose data records concatenate to the payload.       *)
C7_ChunkSequence ==
    (fn \in {"TransferData", "TransferPayload"} /\ NoResend) =>
        LET s == EffChunk
            L == Len(arg.payload)
            tds == TDSent
        IN  /\ \A k \in 1..Len(tds) :
                  /\ tds[k].address = arg.addr + (k - 1) * s
                  /\ tds[k].dataRecord =
                        SubSeq(arg.payload, (k - 1) * s + 1, Min(k * s, L))
            /\ result = "True" =>
                  /\ Len(tds) = (L + s - 1) \div s
                  /\ ConcatData(tds) = arg.payload

\* width 1, 10000 bytes: three chunks at offsets 0, 4092 and 8184
C7_Witness ==
    /\ fn = "TransferData"
    /\ scheme = 1
    /\ arg.addr = 0
    /\ arg.maxmsglen = None
    /\ Len(arg.payload) = 10000
    /\ result = "True"
    /\ Len(sent) = 3
    /\ sent[1].pkt.address = 0
    /\ sent[2].pkt.address = 4092
    /\ sent[3].pkt.address = 8184
    /\ Len(sent[3].pkt.dataRecord) = 1816

IsRPS(p) == p.layer = "GMLAN" /\ p.service = 162
IsPM(p, sub) == p.layer = "GMLAN_PM" /\ p.subfunction = sub

\* a successful first attempt has sent the four messages in order
C8_FourMessages ==
    (fn = "InitDiagnostics" /\ result = "True" /\ CountSent(IsDNC) = 1) =>
        /\ Len(sent) = 4
        /\ IsDNC(sent[1].pkt)
        /\ sent[1].socket =
              (IF arg.broadcastsocket THEN "broadcastsocket" ELSE "socket")
        /\ IsRPS(sent[2].pkt) /\ sent[2].socket = "socket"
        /\ IsPM(sent[3].pkt, 1) /\ sent[3].socket = "socket"
        /\ IsPM(sent[4].pkt, 3) /\ sent[4].socket = "socket"

\* every step of the sequence goes on when its expected answer arrives
C8_Advances ==
    fn = "InitDiagnostics" =>
        /\ (pc = "ID_loop" /\ sent' # sent) =>
              /\ IsDNC(sent'[Len(sent')].pkt)
              /\ IF arg.broadcastsocket
                 THEN pc' = "ID_step2" /\ resp' = resp
                 ELSE PositiveReply(resp', 104) => pc' = "ID_step2"
        /\ (pc = "ID_step2" /\ sent' # sent /\ PositiveReply(resp', 226)) =>
              pc' = "ID_step3"
        /\ (pc = "ID_step3" /\ sent' # sent /\ PositiveReply(resp', 229)) =>
              pc' = "ID_step4"
        /\ (pc = "ID_step4" /\ sent' # sent) => result' = "True"

(* C8: when DisableNormalCommunication, ReportProgrammedState and          *)
(* requestProgramming are answered 0x68, 0xe2 and 0xe5 on the first        *)
(* attempt, InitDiagnostics goes through its four steps and returns True   *)
(* after exactly 4 messages, DisableNormalCommunication,                   *)
(* ReportProgrammedState, requestProgramming, enableProgramming, the       *)
(* first of them on the broadcast socket when one is supplied.             *)
C8_InitSequence ==
    /\ []C8_FourMessages
    /\ [][C8_Advances]_vars

\* success on the first attempt with a broadcast socket: four messages
C8_Witness ==
    /\ fn = "InitDiagnostics"
    /\ arg.broadcastsocket
    /\ result = "True"
    /\ Len(sent) = 4
    /\ sent[1].socket = "broadcastsocket"

\* the step that sent a seed request and got a positive answer with seed 0
C9_ZeroSeedStep ==
    /\ fn = "GetSecurityAccess"
    /\ pc = "SA_loop"
    /\ sent' # sent
    /\ PositiveReply(resp', 103)
    /\ resp'[1].securitySeed = 0

(* C9: in GetSecurityAccess a positive seed response with seed 0 makes     *)
(* the call return True at once: the seed request is the last message of   *)
(* the call, no key submission follows, and on the first attempt the call  *)
(* has sent exactly 1 message.                                             *)
C9_ZeroSeed ==
    /\ [][C9_ZeroSeedStep =>
            /\ result' = "True"
            /\ pc' = "done"
            /\ Len(sent') = Len(sent) + 1
            /\ IsSeedReq(sent'[Len(sent')].pkt)
            /\ (sent = <<>> => Len(sent') = 1)]_vars
    /\ [][pc = "done" => (sent' = sent /\ pc' = "done")]_vars

\* seed 0 on the first attempt: True after one message
C9_Witness ==
    /\ fn = "GetSecurityAccess"
    /\ result = "True"
    /\ Len(sent) = 1
    /\ IsSeedReq(sent[1].pkt)
    /\ PositiveReply(resp, 103)
    /\ resp[1].securitySeed = 0

\* a step of GetSecurityAccess that sends a key submission
C10_KeyStep ==
    /\ fn = "GetSecurityAccess"
    /\ sent' # sent
    /\ \/ pc = "SA_key"
       \/ sent'[Len(sent')].pkt.subfunction # arg.level
       \/ sent'[Len(sent')].pkt.securityKey # 0

\* every message of a successful first attempt with a non-zero seed
C10_TwoMessages ==
    (/\ fn = "GetSecurityAccess"
     /\ result = "True"
     /\ CountSent(IsSeedReq) = 1
     /\ PositiveReply(resp, 103)
     /\ ~IsSeedReq(sent[Len(sent)].pkt)) =>
        /\ Len(sent) = 2
        /\ IsSeedReq(sent[1].pkt)
        /\ sent[2].pkt.subfunction = arg.level + 1

(* C10: in GetSecurityAccess a key submission is sent only directly after  *)
(* a positive seed response with a non-zero seed, in the same attempt,     *)
(* with sub-function level + 1 and the key keyFunction(seed); when it is   *)
(* answered with service 0x67 the call returns True, after exactly 2       *)
(* messages on the first attempt.                                          *)
C10_KeySubmission ==
    /\ []C10_TwoMessages
    /\ [][C10_KeyStep =>
            /\ pc = "SA_key"
            /\ arg.level % 2 = 1
            /\ PositiveReply(resp, 103)
            /\ resp[1].securitySeed # 0
            /\ sent # <<>>
            /\ sent[Len(sent)].pkt = ReqSeed(arg.level)
            /\ Len(sent') = Len(sent) + 1
            /\ sent'[Len(sent')].pkt.layer = "GMLAN_SA"
            /\ sent'[Len(sent')].pkt.subfunction = arg.level + 1
            /\ sent'[Len(sent')].pkt.securityKey =
                  keyFunction(resp[1].securitySeed)
            /\ (PositiveReply(resp', 103) => result' = "True")]_vars

\* seed 0x1234, key accepted on the first attempt: True after two messages
C10_Witness ==
    /\ fn = "GetSecurityAccess"
    /\ arg.level = 3
    /\ result = "True"
    /\ Len(sent) = 2
    /\ sent[2].pkt.subfunction = 4
    /\ sent[2].pkt.securityKey = keyFunction(4660)

\* the size declaration carries the payload length and precedes every
\* data-transfer request
C11_DownloadFirst ==
    fn = "TransferPayload" =>
        /\ \A k \in 1..Len(sent) :
              IsRD(sent[k].pkt) => sent[k].pkt.memorySize = Len(arg.payload)
        /\ \A j, k \in 1..Len(sent) :
              (IsRD(sent[j].pkt) /\ IsTD(sent[k].pkt)) => j < k
        /\ sent # <<>> => IsRD(sent[1].pkt)
        /\ pc \in {"RD_entry", "RD_send", "RD_sniff"} => CountSent(IsTD) = 0

\* the step in which RequestDownload uses up its budget ends the call
C11_FailureEnds ==
    (fn = "TransferPayload" /\ pc \in {"RD_send", "RD_sniff"} /\ retry' < 0) =>
        /\ result' = "False"
        /\ pc' = "done"
        /\ CountSent(IsTD)' = 0

(* C11: TransferPayload sends the RequestDownload request, with memorySize *)
(* len(payload), before any data-transfer request; when RequestDownload    *)
(* has used up its retry budget TransferPayload returns False and no       *)
(* data-transfer request is ever sent.                                     *)
C11_DownloadBeforeData ==
    /\ []C11_DownloadFirst
    /\ [][C11_FailureEnds]_vars
    /\ [][pc = "done" => pc' = "done" /\ result' = result /\ sent' = sent]_vars

\* RequestDownload failed twice for a valid address and a non-empty payload
C11_Witness ==
    /\ fn = "TransferPayload"
    /\ arg.addr = 0
    /\ arg.retry = 1
    /\ Len(arg.payload) = 5
    /\ result = "False"
    /\ CountSent(IsRD) = 2
    /\ Len(sent) = 2

\* the call is inside a response-pending filter loop
InFilterLoop == pc \in {"RD_sniff", "TD_sniff", "RMBA_sniff"}

\* the requests of a call are bounded by its retry budget
C12_RequestsBounded ==
    /\ fn = "RequestDownload" => Len(sent) <= AbsRetry + 1
    /\ fn = "ReadMemoryByAddress" => Len(sent) <= AbsRetry + 1
    /\ fn = "TransferData" =>
          Len(sent) <= (AbsRetry + 1) * Len(arg.payload)

\* the claim as stated: every call returns, whatever the ECU answers
C12_AlwaysReturns == <>(pc = "done")

(* C12 (amended): every call of RequestDownload, TransferData and          *)
(* ReadMemoryByAddress whose sr1 and sniff calls all return eventually     *)
(* returns, unless the ECU answers one request with response pending       *)
(* forever, in which case the call stays in that request's filter loop;    *)
(* the retry budget bounds the requests sent, not the pending waits.       *)
C12_ReturnsUnlessPendingForever ==
    /\ []C12_RequestsBounded
    /\ (<>(pc = "done") \/ <>[]InFilterLoop)

\* a call that returned after more pending replies than MaxPending
C12_Witness ==
    /\ fn = "ReadMemoryByAddress"
    /\ arg.retry = 0
    /\ npend > MaxPending
    /\ pc = "done"
    /\ result = "data"
    /\ Len(sent) = 1


\* the call is TransferData or ReadMemoryByAddress with an address outside
\* [0, 256^width)
C13_BadAddrCall ==
    /\ fn \in {"TransferData", "ReadMemoryByAddress"}
    /\ (arg.addr < 0 \/ arg.addr >= Pow2(8 * scheme))

\* the failure value of the call: False for TransferData, None for the read
C13_Failure == IF fn = "TransferData" THEN "False" ELSE "None"

C13_NothingSent ==
    C13_BadAddrCall =>
        /\ sent = <<>>
        /\ pc \in {"TD_entry", "RMBA_entry", "done"}
        /\ pc = "done" =>
              /\ result = C13_Failure
              /\ retry = AbsRetry
              /\ IsNone(resp)

C13_FirstStepReturns ==
    (C13_BadAddrCall /\ pc \in {"TD_entry", "RMBA_entry"}) =>
        /\ pc' = "done"
        /\ result' = C13_Failure
        /\ sent' = <<>>

(* C13: TransferData and ReadMemoryByAddress called with an address that   *)
(* is negative or >= 256^width return failure in their first step, with   *)
(* no message sent and the retry budget normalised but never decremented,  *)
(* for every retry value.                                                  *)
C13_BadAddressFailsAtOnce ==
    /\ []C13_NothingSent
    /\ [][C13_FirstStepReturns]_vars

\* a read at 256^width with a negative budget has returned None
C13_Witness ==
    /\ fn = "ReadMemoryByAddress"
    /\ arg.addr = Pow2(8 * scheme)
    /\ arg.retry < 0
    /\ pc = "done"
    /\ result = "None"
    /\ sent = <<>>


\* the number of chunks of the payload
C14_Chunks == (Len(arg.payload) + EffChunk - 1) \div EffChunk

\* the requests sent so far for the chunk at the current offset i
C14_SentForChunk ==
    CountSent(LAMBDA p : IsTD(p) /\ p.address = arg.addr + i)

\* the attempts left to a chunk depend on its own requests only
C14_OwnBudget ==
    fn \in {"TransferData", "TransferPayload"} =>
        /\ pc = "TD_send" => retry + C14_SentForChunk = AbsRetry
        /\ pc = "TD_sniff" => retry + C14_SentForChunk = AbsRetry + 1
        /\ Len(TDSent) <= C14_Chunks * (AbsRetry + 1)
        /\ pc = "RD_send" => retry + CountSent(IsRD) = AbsRetry
        /\ pc = "RD_sniff" => retry + CountSent(IsRD) = AbsRetry + 1

\* every chunk starts with the configured budget
C14_ChunkStartsFresh ==
    (fn \in {"TransferData", "TransferPayload"}
        /\ pc = "TD_for" /\ pc' = "TD_send") =>
        retry' = AbsRetry

(* C14: in TransferData every chunk starts with the retry budget |r| of    *)
(* the call, whatever earlier chunks used: the attempts left to a chunk    *)
(* are |r|+1 minus its own requests, a chunk is sent at most |r|+1 times   *)
(* and an upload of c chunks sends at most c*(|r|+1) data-transfer         *)
(* requests; in TransferPayload the requests of RequestDownload are        *)
(* counted against a budget of their own.                                  *)
C14_FreshBudgetPerChunk ==
    /\ []C14_OwnBudget
    /\ [][C14_ChunkStartsFresh]_vars

\* TransferPayload, budget 1, three chunks: the download request and every
\* chunk were sent twice and the upload succeeded
C14_Witness ==
    /\ fn = "TransferPayload"
    /\ arg.retry = 1
    /\ C14_Chunks = 3
    /\ result = "True"
    /\ CountSent(IsRD) = 2
    /\ Len(TDSent) = 6


\* the starting addresses of the data-transfer requests sent so far
C15_Addresses == {TDSent[k].address : k \in 1..Len(TDSent)}

\* the requests go out in ascending order of offset, the chunks requested
\* are the first ones, and True is returned only after the last chunk's
\* positive response
C15_InOrder ==
    fn \in {"TransferData", "TransferPayload"} =>
        LET tds == TDSent
        IN  /\ \A k \in 1..(Len(tds) - 1) :
                  tds[k + 1].address \in
                     {tds[k].address, tds[k].address + EffChunk}
            /\ tds # <<>> => tds[1].address = arg.addr
            /\ (result = "True" /\ arg.payload # <<>>) =>
                  /\ Cardinality(C15_Addresses) = C14_Chunks
                  /\ PositiveReply(resp, 118)
            /\ (result = "False" /\ tds # <<>>) =>
                  /\ ~PositiveReply(resp, 118)
                  /\ CountSent(LAMBDA p : IsTD(p)
                        /\ p.address = tds[Len(tds)].address) = AbsRetry + 1

\* a request for a later chunk follows the positive response to the chunk
\* before it
C15_NextAfterAck ==
    (TDSent # <<>> /\ Len(TDSent') = Len(TDSent) + 1
        /\ TDSent'[Len(TDSent')].address # TDSent[Len(TDSent)].address) =>
        PositiveReply(resp, 118)

\* a chunk out of budget ends the call with failure
C15_ExhaustionEnds ==
    (pc \in {"TD_send", "TD_sniff"} /\ retry' < 0) =>
        /\ result' = "False"
        /\ pc' = "done"

\* nothing is sent after the call has returned
C15_ReturnIsFinal == (result # "running") => (sent' = sent /\ result' = result)

(* C15: TransferData sends the request for a chunk only after the chunk    *)
(* before it, and so every chunk at a smaller offset, got its positive     *)
(* response 0x76; a chunk that exhausts its budget makes the call return   *)
(* False at once, with no request for a later chunk sent then or after;    *)
(* True is returned only when every chunk was requested and the last       *)
(* response is 0x76.                                                       *)
C15_ChunksInOrder ==
    /\ []C15_InOrder
    /\ [][C15_NextAfterAck]_vars
    /\ [][C15_ExhaustionEnds]_vars
    /\ [][C15_ReturnIsFinal]_vars

\* three chunks, budget 1: the first chunk was acknowledged, the second
\* failed twice, the third was never requested
C15_Witness ==
    /\ fn = "TransferData"
    /\ arg.retry = 1
    /\ C14_Chunks = 3
    /\ result = "False"
    /\ Len(TDSent) = 3
    /\ TDSent[1].address = arg.addr
    /\ TDSent[2].address = arg.addr + EffChunk
    /\ TDSent[3].address = arg.addr + EffChunk


\* the message p may directly follow the message q in one call: the next
\* step of the same attempt, or DisableNormalCommunication of a new one
C16_MayFollow(q, p) ==
    \/ IsDNC(p) /\ ~IsPM(q, 3)
    \/ IsRPS(p) /\ IsDNC(q)
    \/ IsPM(p, 1) /\ IsRPS(q)
    \/ IsPM(p, 3) /\ IsPM(q, 1)

\* enableProgramming only ends a full attempt; step 4 is entered with the
\* 0xe5 response in hand
C16_Log ==
    fn = "InitDiagnostics" =>
        /\ sent # <<>> => IsDNC(sent[1].pkt)
        /\ \A k \in 1..(Len(sent) - 1) :
              C16_MayFollow(sent[k].pkt, sent[k + 1].pkt)
        /\ pc = "ID_step4" => PositiveReply(resp, 229)
        /\ pc = "ID_step3" => PositiveReply(resp, 226)
        /\ (pc = "ID_step2" /\ ~arg.broadcastsocket) =>
              PositiveReply(resp, 104)

\* the expected response code of the step at pc, 0 where none is awaited
C16_Expected ==
    CASE pc = "ID_loop" /\ ~arg.broadcastsocket -> 104
      [] pc = "ID_step2" -> 226
      [] pc = "ID_step3" -> 229
      [] OTHER -> 0

\* a timeout or wrong code aborts the attempt; a new attempt starts with
\* DisableNormalCommunication while budget remains, else the call fails
C16_Abort ==
    fn = "InitDiagnostics" =>
        /\ (C16_Expected # 0 /\ sent' # sent
               /\ ~PositiveReply(resp', C16_Expected)) =>
              /\ pc' = "ID_loop"
              /\ result' = "running"
        /\ (pc = "ID_loop" /\ retry >= 0) =>
              /\ Len(sent') = Len(sent) + 1
              /\ IsDNC(sent'[Len(sent')].pkt)
              /\ retry' = retry - 1
        /\ (pc = "ID_loop" /\ retry < 0) =>
              /\ result' = "False"
              /\ sent' = sent
        /\ (sent' # sent /\ IsPM(sent'[Len(sent')].pkt, 3)) =>
              /\ pc = "ID_step4"
              /\ result' = "True"

(* C16: InitDiagnostics sends enableProgramming only as the fourth message *)
(* of an attempt, after ReportProgrammedState was answered 0xe2 and        *)
(* requestProgramming 0xe5 in that attempt (and DisableNormalCommunication *)
(* 0x68 when no broadcast socket is given); a timeout or a wrong service   *)
(* code at a step that awaits a response aborts the attempt, and the next  *)
(* message is DisableNormalCommunication if budget remains, else the call  *)
(* returns False.                                                          *)
C16_EnableAfterAcks ==
    /\ []C16_Log
    /\ [][C16_Abort]_vars

\* the first attempt was aborted at requestProgramming, the second one
\* went through
C16_Witness ==
    /\ fn = "InitDiagnostics"
    /\ ~arg.broadcastsocket
    /\ result = "True"
    /\ Len(sent) = 7
    /\ IsPM(sent[3].pkt, 1)
    /\ IsDNC(sent[4].pkt)
    /\ IsPM(sent[7].pkt, 3)


\* p is a key submission of this call
C17_IsKey(p) == p.layer = "GMLAN_SA" /\ p.subfunction = arg.level + 1

\* one retry per attempt: the counter is |r| minus the seed requests sent;
\* a key submission directly follows its seed request
C17_Budget ==
    fn = "GetSecurityAccess" =>
        /\ pc \in {"SA_loop", "SA_key"} =>
              retry = AbsRetry - CountSent(IsSeedReq)
        /\ \A k \in 1..Len(sent) :
              C17_IsKey(sent[k].pkt) => (k > 1 /\ IsSeedReq(sent[k - 1].pkt))
        /\ pc = "SA_key" =>
              /\ IsSeedReq(sent[Len(sent)].pkt)
              /\ PositiveReply(resp, 103)
        /\ result = "False" /\ sent # <<>> =>
              CountSent(IsSeedReq) = AbsRetry + 1

\* a key submission that is not answered 0x67 sends the call back to the
\* top of the loop: a new seed request if budget remains, else failure
C17_KeyFailure ==
    fn = "GetSecurityAccess" =>
        /\ (pc = "SA_key" /\ ~PositiveReply(resp', 103)) =>
              /\ C17_IsKey(sent'[Len(sent')].pkt)
              /\ pc' = "SA_loop"
              /\ result' = "running"
              /\ retry' = retry
        /\ (pc = "SA_loop" /\ retry >= 0) =>
              /\ Len(sent') = Len(sent) + 1
              /\ sent'[Len(sent')].pkt = ReqSeed(arg.level)
              /\ retry' = retry - 1
        /\ (pc = "SA_loop" /\ retry < 0) =>
              /\ result' = "False"
              /\ sent' = sent
        /\ (sent' # sent /\ C17_IsKey(sent'[Len(sent')].pkt)) =>
              sent'[Len(sent')].pkt.securityKey =
                 keyFunction(resp[1].securitySeed)

(* C17: in GetSecurityAccess an attempt whose key submission is answered   *)
(* by invalid key (0x7f, 0x35), by another negative response or by no      *)
(* response costs exactly one retry; the next message, if budget remains,  *)
(* is a new seed request, and every key sent is derived from the seed of   *)
(* the seed request right before it; with no budget left the call returns  *)
(* False.                                                                  *)
C17_KeyFailureRetries ==
    /\ []C17_Budget
    /\ [][C17_KeyFailure]_vars

\* budget 1: two attempts, each seed request followed by a key that the
\* ECU found invalid
C17_Witness ==
    /\ fn = "GetSecurityAccess"
    /\ arg.retry = 1
    /\ result = "False"
    /\ Len(sent) = 4
    /\ C17_IsKey(sent[2].pkt)
    /\ IsSeedReq(sent[3].pkt)
    /\ C17_IsKey(sent[4].pkt)
    /\ resp = Some(Negative(RcInvalidKey, 39))


\* r is a negative response with code 0x78 echoing a service other than sid
C18_ForeignPending(r, sid) ==
    /\ r # None
    /\ r[1].service = 127
    /\ r[1].returnCode = 120
    /\ r[1].requestServiceId # sid

\* the step consumed one retry: the request is sent again, or the call
\* returns its failure value when the budget is used up
C18_RetryConsumed ==
    /\ retry' = retry - 1
    /\ IF retry' >= 0
       THEN pc' = (CASE WaitingOn = 52 -> "RD_send"
                     [] WaitingOn = 54 -> "TD_send"
                     [] OTHER -> "RMBA_send")
            /\ result' = "running"
       ELSE pc' = "done"
            /\ result' = (IF WaitingOn = 35 THEN "None" ELSE "False")

\* a step of a transfer helper that took an answer to its request
C18_Step ==
    /\ (WaitingOn # 0 /\ C18_ForeignPending(resp', WaitingOn)) =>
          C18_RetryConsumed
    /\ (pc \in {"RD_sniff", "TD_sniff", "RMBA_sniff"} /\ resp' = None) =>
          (C18_RetryConsumed /\ sent' = sent)
    /\ (WaitingOn # 0 /\ pc' \in {"RD_sniff", "TD_sniff", "RMBA_sniff"}) =>
          PendingReply(resp', WaitingOn)

(* C18: RequestDownload, TransferData and ReadMemoryByAddress start or     *)
(* continue the passive wait only on a negative reply with code 0x78 that  *)
(* echoes the service id of the request just sent (0x34, 0x36, 0x23); a    *)
(* 0x78 reply echoing another service id starts no wait and costs one      *)
(* retry like any negative response, and a passive wait that yields no     *)
(* message costs one retry as a timeout.                                   *)
C18_PendingMatchesRequest == [][C18_Step]_vars

\* budget 0: the read was answered response pending, the passive wait then
\* yielded nothing, and the call returned None
C18_Witness ==
    /\ fn = "ReadMemoryByAddress"
    /\ arg.retry = 0
    /\ npend = 1
    /\ resp = None
    /\ result = "None"
    /\ Len(sent) = 1


(* C19: every data-transfer request sent by TransferData carries a         *)
(* starting address inside the addressing range: each sent                 *)
(* startingAddress = addr + offset satisfies 0 <= addr + offset <          *)
(* 256^width.                                                              *)
C19_AddressesInRange ==
    fn = "TransferData" =>
        \A k \in 1..Len(sent) :
            IsTD(sent[k].pkt) =>
                /\ sent[k].pkt.address >= 0
                /\ sent[k].pkt.address < Pow2(8 * scheme)


\* run() is past its last send once the flag is set
C20_PastSend == tpc \in {"check", "wait", "exited"}

\* with the flag set, run() sends at most once more and only moves on
\* towards its exit
C20_AfterFlag ==
    stopEvent =>
        /\ stopEvent'
        /\ sent' # sent =>
              /\ tpc \in {"wakeup", "send"}
              /\ C20_PastSend'
              /\ Len(sent') = Len(sent) + 1
        /\ C20_PastSend => (C20_PastSend' /\ sent' = sent)
        /\ tpc = "check" => tpc' \in {"check", "exited"}

\* the wake-up message is the first thing run() does
C20_WakeupSent ==
    /\ tpc \notin {"new", "wakeup"} => Len(sent) >= 1
    /\ mpc = "stopped" => Len(sent) >= 1
    /\ \A k \in 1..Len(sent) : sent[k].pkt = ReqTesterPresent

(* C20: for a started TesterPresentThread, in every interleaving, once     *)
(* stop() has set the flag run() sends at most one further TesterPresent   *)
(* message, passes its wait at most once and exits, and stop() eventually  *)
(* returns; the wake-up message is sent even when stop() is called right   *)
(* after start().                                                          *)
C20_StopEndsLoop ==
    /\ []C20_WakeupSent
    /\ [][C20_AfterFlag]_vars
    /\ (mpc = "joining") ~> (mpc = "stopped")
    /\ (mpc = "started") ~> (Len(sent) >= 1)

\* stop() has returned and the wake-up is the only message ever sent
C20_Witness ==
    /\ fn = "TesterPresentThread"
    /\ mpc = "stopped"
    /\ tpc = "exited"
    /\ Len(sent) = 1

=============================================================================
